---- MODULE Spec2Model ----
(***************************************************************************)
(* Job-Application-Tracking browser extension.                             *)
(*                                                                         *)
(*   src/src/inject.js      page context: parseUrl (the scraper), the      *)
(*                          loadData / autoSave message listener and the   *)
(*                          Easy Apply completion watcher                  *)
(*   src/src/background.js  background context: the saveJob / loadSheet    *)
(*                          message listener                               *)
(*                                                                         *)
(* JavaScript strings are sequences of one-character strings, so that      *)
(* String.prototype.trim, RegExp.prototype.test and the date formatting    *)
(* are computed, not assumed.                                              *)
(***************************************************************************)
EXTENDS Integers, Sequences, FiniteSets, TLC

VARIABLES
    url,              \* window.location.href
    dom,              \* the document: selector -> first matching element
    now,              \* the host clock, seconds after ClockOrigin
    scraped,          \* results of direct calls of the exported parseUrl
    autoSave,         \* inject.js:98
    savedApplication, \* inject.js:99
    pageMap,          \* inject.js:100
    observer,         \* inject.js:101
    timers,           \* pending setTimeout(sendFormDataOnEasyApply, 500) callbacks
    sent,             \* chrome.runtime.sendMessage calls made by saveJob, in order
    lastAttempt,      \* history: the latest run of sendFormDataOnEasyApply (FairSpec)
    loadDataParses,   \* parseUrl calls made by the loadData branch
    pendingSets,      \* chrome.storage.local.set calls whose callback has not run
    storage,          \* chrome.storage.local
    responses,        \* sendResponse calls of the loadData branch, in order
    bgTasks,          \* invocations of the background listener (an async function)
    appendCalls,      \* oauth.appendValues calls, in order
    injections        \* chrome.scripting.executeScript calls of injectScript, in order

vars == <<url, dom, now, scraped, autoSave, savedApplication, pageMap, observer,
          timers, sent, lastAttempt, loadDataParses, pendingSets, storage,
          responses, bgTasks, appendCalls, injections>>

scrapeVars == <<scraped>>
watcherVars == <<autoSave, savedApplication, observer, timers, sent, lastAttempt>>
loadVars == <<pageMap, loadDataParses, pendingSets, storage, responses>>
bgVars == <<bgTasks, appendCalls, injections>>

(***************************************************************************)
(* Bounds                                                                  *)
(***************************************************************************)
\* the clock ticks at most this many seconds
MaxClock == 1
\* direct parseUrl calls in the scraper specification
MaxCalls == 2
\* pending arming timers
MaxTimers == 2
\* saveJob messages sent in one page session
MaxSent == 2
\* loadData requests in one page session
MaxLoads == 2
\* messages handled by the background listener
MaxBgMessages == 2
\* script injections made by the background context
MaxInjections == 3

(***************************************************************************)
(* Strings                                                                 *)
(***************************************************************************)
RECURSIVE Concat(_)
Concat(parts) ==
    IF parts = <<>> THEN <<>> ELSE Head(parts) \o Concat(Tail(parts))

\* ECMAScript WhiteSpace and LineTerminator code points, the ones
\* String.prototype.trim strips (those that occur in the modelled texts).
WhiteSpace == {" ", "\t", "\n", "\r"}

\* "." in a RegExp without the s flag matches any character but a line terminator.
LineTerminator == {"\n", "\r"}

RECURSIVE TrimStart(_)
TrimStart(s) ==
    IF s # <<>> /\ Head(s) \in WhiteSpace THEN TrimStart(Tail(s)) ELSE s

RECURSIVE TrimEnd(_)
TrimEnd(s) ==
    IF s # <<>> /\ s[Len(s)] \in WhiteSpace
    THEN TrimEnd(SubSeq(s, 1, Len(s) - 1))
    ELSE s

\* String.prototype.trim
Trim(s) == TrimEnd(TrimStart(s))

\* new RegExp(key).test(url) for a key made of literal characters and ".":
\* true iff the pattern matches at some offset of the subject.
RegExpTest(key, subject) ==
    \E i \in 0..(Len(subject) - Len(key)) :
        \A j \in 1..Len(key) :
            IF key[j] = "."
            THEN subject[i + j] \notin LineTerminator
            ELSE subject[i + j] = key[j]

Digit(d) == <<"0", "1", "2", "3", "4", "5", "6", "7", "8", "9">>[d + 1]

TwoDigit(n) == <<Digit((n \div 10) % 10), Digit(n % 10)>>

FourDigit(n) ==
    <<Digit((n \div 1000) % 10), Digit((n \div 100) % 10),
      Digit((n \div 10) % 10), Digit(n % 10)>>

(***************************************************************************)
(* formatCurrentDateTime, inject.js:6-15                                   *)
(***************************************************************************)
\* The local date and time at which the modelled clock reads 0: one second
\* before a month ends, so that a tick changes the date as well as the time.
ClockOrigin == [year |-> 2026, dayOfYear |-> 30, secondOfDay |-> 86399]

MonthLengths == <<31, 28, 31, 30, 31, 30, 31, 31, 30, 31, 30, 31>>

RECURSIVE MonthDay(_, _)
MonthDay(m, d) ==
    IF d < MonthLengths[m]
    THEN [month |-> m, day |-> d + 1]
    ELSE MonthDay(m + 1, d - MonthLengths[m])

\* new Date() when the clock reads t
Date(t) ==
    LET total == ClockOrigin.secondOfDay + t
        md == MonthDay(1, ClockOrigin.dayOfYear + (total \div 86400))
        sec == total % 86400
    IN  [year |-> ClockOrigin.year, month |-> md.month, day |-> md.day,
         hours |-> sec \div 3600, minutes |-> (sec \div 60) % 60,
         seconds |-> sec % 60]

\* toLocaleDateString('en-US', {day: '2-digit', month: '2-digit', year: 'numeric'})
toLocaleDateString(d) ==
    TwoDigit(d.month) \o <<"/">> \o TwoDigit(d.day) \o <<"/">> \o FourDigit(d.year)

\* toLocaleTimeString('en-GB')
toLocaleTimeString(d) ==
    TwoDigit(d.hours) \o <<":">> \o TwoDigit(d.minutes) \o <<":">> \o TwoDigit(d.seconds)

formatCurrentDateTime(t) ==
    LET date == toLocaleDateString(Date(t))
        time == toLocaleTimeString(Date(t))
    IN  date \o <<" ">> \o time

(***************************************************************************)
(* The document                                                            *)
(***************************************************************************)
\* document.querySelector(selector): the first matching element, as a
\* sequence of length 1, or the empty sequence for null.
NoElement == <<>>

querySelector(d, selector) == d[selector]

(***************************************************************************)
(* getURL, getText, parseUrl: inject.js:23-89                              *)
(***************************************************************************)
getURL(d, href, selector) ==
    LET link == querySelector(d, selector)
    IN  IF link # NoElement THEN link[1].href ELSE href

getText(d, selector) ==
    LET el == querySelector(d, selector)
    IN  IF el # NoElement /\ Trim(el[1].textContent) # <<>>
        THEN Trim(el[1].textContent)
        ELSE <<>>

LinkedInKey == <<"w", "w", "w", ".", "l", "i", "n", "k", "e", "d", "i", "n", ".", "c", "o", "m">>
IndeedKey == <<"w", "w", "w", ".", "i", "n", "d", "e", "e", "d", ".", "c", "o", "m">>
GlassdoorKey == <<"w", "w", "w", ".", "g", "l", "a", "s", "s", "d", "o", "o", "r", ".", "c", "o", "m">>

LinkedIn == <<"L", "i", "n", "k", "e", "d", "I", "n">>
Indeed == <<"I", "n", "d", "e", "e", "d">>
GlassDoor == <<"G", "l", "a", "s", "s", "D", "o", "o", "r">>

NotAvailable == <<"N", "/", "A">>

\* Object.entries(urlMap): the entries in insertion order
urlMap == <<
    [key |-> LinkedInKey,
     jobTitle |-> ".job-details-jobs-unified-top-card__job-title",
     company |-> ".job-details-jobs-unified-top-card__primary-description-without-tagline a",
     source |-> LinkedIn,
     url |-> ".jobs-search-results-list__list-item--active a"],
    [key |-> IndeedKey,
     jobTitle |-> ".jobsearch-JobInfoHeader-title",
     company |-> "[data-testid=\"inlineHeader-companyName\"]",
     source |-> Indeed,
     url |-> ".vjs-highlight .jobTitle a"],
    [key |-> GlassdoorKey,
     jobTitle |-> ".JobDetails_jobTitle__Rw_gn",
     company |-> ".EmployerProfile_employerName__Xemli",
     source |-> GlassDoor,
     url |-> ".JobCard_selected__q_cLS .JobCard_trackingLink__zUSOo a"] >>

\* ParseLoop with the two assignments of inject.js:83-84 going to each
\* other's field: the timestamp lands in url.
RECURSIVE ParseLoopSwapped(_, _, _, _, _)
ParseLoopSwapped(i, storageRec, href, d, t) ==
    IF i > Len(urlMap) THEN storageRec
    ELSE LET element == urlMap[i]
             next == IF RegExpTest(element.key, href)
                     THEN [jobTitle |-> getText(d, element.jobTitle),
                           company |-> getText(d, element.company),
                           source |-> element.source,
                           applicationDateTime |-> getURL(d, href, element.url),
                           url |-> formatCurrentDateTime(t)]
                     ELSE storageRec
         IN  ParseLoopSwapped(i + 1, next, href, d, t)

\* One pass of the for loop at inject.js:77-86 over entries i..Len(urlMap).
RECURSIVE ParseLoop(_, _, _, _, _)
ParseLoop(i, storageRec, href, d, t) ==
    IF i > Len(urlMap) THEN storageRec
    ELSE LET element == urlMap[i]
             next == IF RegExpTest(element.key, href)
                     THEN [jobTitle |-> getText(d, element.jobTitle),
                           company |-> getText(d, element.company),
                           source |-> element.source,
                           applicationDateTime |-> formatCurrentDateTime(t),
                           url |-> getURL(d, href, element.url)]
                     ELSE storageRec
         IN  ParseLoop(i + 1, next, href, d, t)

\* parseUrl with source defaulting to the 'N/A' sentinel as url does.
parseUrlSourceSentinel(href, d, t) ==
    LET init == [jobTitle |-> <<>>,
                 company |-> <<>>,
                 source |-> NotAvailable,
                 applicationDateTime |-> formatCurrentDateTime(t),
                 url |-> NotAvailable]
    IN  ParseLoop(1, init, href, d, t)

\* parseUrl with the record's url defaulting to the page address, not 'N/A'.
parseUrlDefaultHref(href, d, t) ==
    LET init == [jobTitle |-> <<>>,
                 company |-> <<>>,
                 source |-> <<>>,
                 applicationDateTime |-> formatCurrentDateTime(t),
                 url |-> href]
    IN  ParseLoop(1, init, href, d, t)

\* parseUrl(url) called while window.location.href = href, the document is d
\* and the clock reads t.  In the code url and window.location.href are the
\* same string at every call site.
parseUrl(href, d, t) ==
    LET init == [jobTitle |-> <<>>,
                 company |-> <<>>,
                 source |-> <<>>,
                 applicationDateTime |-> formatCurrentDateTime(t),
                 url |-> NotAvailable]
    IN  ParseLoop(1, init, href, d, t)

(***************************************************************************)
(* Inputs: page URLs and documents                                         *)
(***************************************************************************)
Scheme == <<"h", "t", "t", "p", "s", ":", "/", "/">>
LinkedInHost == <<"w", "w", "w", ".", "l", "i", "n", "k", "e", "d", "i", "n", ".", "c", "o", "m">>
IndeedHost == <<"w", "w", "w", ".", "i", "n", "d", "e", "e", "d", ".", "c", "o", "m">>
GlassdoorHost == <<"w", "w", "w", ".", "g", "l", "a", "s", "s", "d", "o", "o", "r", ".", "c", "o", "m">>
ExampleHost == <<"e", "x", "a", "m", "p", "l", "e", ".", "c", "o", "m">>
\* no Site Descriptor's host, yet "." in the Indeed key matches its "x"
LookalikeHost == <<"w", "w", "w", "x", "i", "n", "d", "e", "e", "d", ".", "c", "o", "m">>
JobsPath == <<"/", "j", "o", "b", "s">>
QueryPrefix == <<"?", "u", "=">>
JobPath == <<"/", "j", "o", "b", "/", "1">>

Href(host, query) ==
    IF query = <<>>
    THEN Concat(<<Scheme, host, JobsPath>>)
    ELSE Concat(<<Scheme, host, JobsPath, QueryPrefix, query>>)

ScrapeUrls ==
    { Href(h, q) :
        h \in {LinkedInHost, IndeedHost, GlassdoorHost, ExampleHost, LookalikeHost},
        q \in {<<>>, IndeedHost, LinkedInHost} }

applyDivClass == ".jobs-s-apply"
easyApplyButtonClass == ".jobs-apply-button span.artdeco-button__text"
postApplyClass == "artdeco-inline-feedback--success"

TitleSelectors == { urlMap[i].jobTitle : i \in 1..Len(urlMap) }
CompanySelectors == { urlMap[i].company : i \in 1..Len(urlMap) }
LinkSelectors == { urlMap[i].url : i \in 1..Len(urlMap) }
ScrapeSelectors == TitleSelectors \cup CompanySelectors \cup LinkSelectors
Selectors == ScrapeSelectors \cup {applyDivClass, easyApplyButtonClass}

SiteOf(selector) ==
    CHOOSE i \in 1..Len(urlMap) :
        selector \in {urlMap[i].jobTitle, urlMap[i].company, urlMap[i].url}

SiteHosts == <<LinkedInHost, IndeedHost, GlassdoorHost>>
SiteTitles == <<<<"D", "e", "v">>, <<"Q", " ", "A">>, <<"O", "p", "s">>>>
SiteCompanies == <<<<"A", "c", "m", "e">>, <<"B", "o", "l", "t">>, <<"C", "y", "a", "n">>>>

Paddings == {"none", "both", "blank"}

\* The text content of an element whose visible text is s.
Pad(w, s) ==
    CASE w = "none" -> s
      [] w = "both" -> <<"\n", " ">> \o s \o <<" ", "\t">>
      [] w = "blank" -> <<" ", "\n">>

\* The element a selector resolves to: its textContent, its href (resolved,
\* absolute; empty for an element that is no link) and, for the application
\* container, its identity.
ElementFor(selector, w) ==
    LET i == SiteOf(selector)
    IN  [id |-> 0,
         textContent |->
             IF selector \in CompanySelectors
             THEN Pad(w, SiteCompanies[i])
             ELSE Pad(w, SiteTitles[i]),
         href |->
             IF selector \in LinkSelectors
             THEN Concat(<<Scheme, SiteHosts[i], JobPath>>)
             ELSE <<>>]

\* The document in which exactly the selectors of present resolve.
MkDom(present, w) ==
    [selector \in Selectors |->
        IF selector \in present /\ selector \in ScrapeSelectors
        THEN <<ElementFor(selector, w)>>
        ELSE NoElement]

ScrapeDoms == { MkDom(present, w) : present \in SUBSET ScrapeSelectors, w \in Paddings }

\* The document d with the application container replaced by the element
\* of identity c (0: no container).
WithApplyDiv(d, c) ==
    [d EXCEPT ![applyDivClass] =
        IF c = 0 THEN NoElement
        ELSE <<[id |-> c, textContent |-> <<>>, href |-> <<>>]>>]

(***************************************************************************)
(* Initial values of the page-session and background state                 *)
(***************************************************************************)
EmptyStorage == [job |-> <<>>, sheetId |-> <<>>]

WatcherInit ==
    /\ autoSave = FALSE
    /\ savedApplication = FALSE
    /\ observer = <<>>
    /\ timers = 0
    /\ sent = <<>>
    /\ lastAttempt = <<>>

LoadInit ==
    /\ pageMap = <<>>
    /\ loadDataParses = 0
    /\ pendingSets = <<>>
    /\ storage = EmptyStorage
    /\ responses = <<>>

BgInit ==
    /\ bgTasks = <<>>
    /\ appendCalls = <<>>
    /\ injections = <<>>

(***************************************************************************)
(* The host clock                                                          *)
(***************************************************************************)
Tick ==
    /\ now < MaxClock
    /\ now' = now + 1
    /\ UNCHANGED <<url, dom, scrapeVars, watcherVars, loadVars, bgVars>>

(***************************************************************************)
(* The scraper on its own: parseUrl called on a fixed page                 *)
(***************************************************************************)
ScrapeInit ==
    /\ url \in ScrapeUrls
    /\ dom \in ScrapeDoms
    /\ now = 0
    /\ scraped = <<>>
    /\ WatcherInit /\ LoadInit /\ BgInit

CallParseUrl ==
    /\ Len(scraped) < MaxCalls
    /\ scraped' = Append(scraped, [at |-> now, result |-> parseUrl(url, dom, now)])
    /\ UNCHANGED <<url, dom, now, watcherVars, loadVars, bgVars>>

ScrapeNext == CallParseUrl \/ Tick

ScrapeSpec == ScrapeInit /\ [][ScrapeNext]_vars

(***************************************************************************)
(* Properties of the scraper (checked under ScrapeSpec, where url and dom  *)
(* are the inputs of every recorded call)                                  *)
(***************************************************************************)
\* The descriptors whose key, as a RegExp, matches the URL.
Matching(href) == { i \in 1..Len(urlMap) : RegExpTest(urlMap[i].key, href) }

FirstMatch(href) == CHOOSE i \in Matching(href) : \A j \in Matching(href) : i <= j

Resolves(d, selector) == querySelector(d, selector) # NoElement

AllResolve(d, i) ==
    /\ Resolves(d, urlMap[i].jobTitle)
    /\ Resolves(d, urlMap[i].company)
    /\ Resolves(d, urlMap[i].url)

Results == { scraped[k].result : k \in 1..Len(scraped) }

\* C5 as stated: for a URL that matches no Site Descriptor, parseUrl returns
\* empty jobTitle, company and source, url equal to the input URL, and a
\* non-empty applicationDateTime.
C5_UnmatchedUrlIsInput ==
    \A r \in Results :
        Matching(url) = {} =>
            /\ r.jobTitle = <<>>
            /\ r.company = <<>>
            /\ r.source = <<>>
            /\ r.url = url
            /\ r.applicationDateTime # <<>>

\* C5 amended: for a URL that matches no Site Descriptor, parseUrl returns
\* empty jobTitle, company and source, url equal to the sentinel 'N/A', and
\* a non-empty applicationDateTime.
C5_UnmatchedUrlIsSentinel ==
    \A r \in Results :
        Matching(url) = {} =>
            /\ r.jobTitle = <<>>
            /\ r.company = <<>>
            /\ r.source = <<>>
            /\ r.url = NotAvailable
            /\ r.applicationDateTime # <<>>

C5_Witness ==
    /\ Matching(url) = {}
    /\ \E r \in Results : r.url = NotAvailable /\ r.url # url

\* C6: for a URL that matches more than one pattern, the record takes its
\* source and its jobTitle/company/url selectors from the first descriptor
\* in map order whose pattern matches.
C6_FirstMatchWins ==
    \A r \in Results :
        Matching(url) # {} =>
            LET element == urlMap[FirstMatch(url)]
            IN  /\ r.source = element.source
                /\ r.jobTitle = getText(dom, element.jobTitle)
                /\ r.company = getText(dom, element.company)
                /\ r.url = getURL(dom, url, element.url)

\* C7: for a URL matching a Site Descriptor all of whose selectors resolve,
\* jobTitle and company are the trimmed text content of the resolved
\* elements, source is the descriptor's display name and url is the
\* resolved link's href.
C7_MatchedAllResolved ==
    \A r \in Results : \A i \in Matching(url) :
        AllResolve(dom, i) =>
            /\ r.jobTitle = Trim(querySelector(dom, urlMap[i].jobTitle)[1].textContent)
            /\ r.company = Trim(querySelector(dom, urlMap[i].company)[1].textContent)
            /\ r.source = urlMap[i].source
            /\ r.url = querySelector(dom, urlMap[i].url)[1].href

\* C8: for a URL matching a Site Descriptor, each field whose selector
\* resolves to no element takes its default (empty string for jobTitle and
\* company, the current page URL for url) and each field whose selector
\* resolves is populated from its element; parseUrl always returns a record.
C8_MissingSelectorsDefault ==
    \A r \in Results : \A i \in Matching(url) :
        /\ r.jobTitle =
              IF Resolves(dom, urlMap[i].jobTitle)
              THEN Trim(querySelector(dom, urlMap[i].jobTitle)[1].textContent)
              ELSE <<>>
        /\ r.company =
              IF Resolves(dom, urlMap[i].company)
              THEN Trim(querySelector(dom, urlMap[i].company)[1].textContent)
              ELSE <<>>
        /\ r.url =
              IF Resolves(dom, urlMap[i].url)
              THEN querySelector(dom, urlMap[i].url)[1].href
              ELSE url

\* What does hold of the code for C6, C7 and C8: the record is built from the
\* LAST descriptor in map order whose pattern matches, so the three
\* statements hold of every URL that matches exactly one pattern.
LastMatch(href) == CHOOSE i \in Matching(href) : \A j \in Matching(href) : j <= i

ScrapeLastMatchWins ==
    \A r \in Results :
        Matching(url) # {} =>
            LET element == urlMap[LastMatch(url)]
            IN  /\ r.source = element.source
                /\ r.jobTitle = getText(dom, element.jobTitle)
                /\ r.company = getText(dom, element.company)
                /\ r.url = getURL(dom, url, element.url)

ScrapeSingleMatch ==
    Cardinality(Matching(url)) = 1 =>
        /\ C6_FirstMatchWins
        /\ C7_MatchedAllResolved
        /\ C8_MissingSelectorsDefault

\* A JavaScript string: a finite sequence of characters.
IsString(s) == s \in Seq(STRING)

\* C14: every record parseUrl returns has exactly the five fields, each a
\* string; source is one of '', 'LinkedIn', 'Indeed', 'GlassDoor'; and
\* source is '' exactly when no Site Descriptor pattern matched the URL.
C14_RecordWellFormed ==
    \A r \in Results :
        /\ DOMAIN r = {"jobTitle", "company", "source", "applicationDateTime", "url"}
        /\ IsString(r.jobTitle) /\ IsString(r.company) /\ IsString(r.source)
        /\ IsString(r.applicationDateTime) /\ IsString(r.url)
        /\ r.source \in {<<>>, LinkedIn, Indeed, GlassDoor}
        /\ (r.source = <<>>) <=> (Matching(url) = {})

\* A matched-but-empty record: the URL matches the Glassdoor pattern, no
\* text selector resolves, and the record still tells by its source that a
\* descriptor matched.
C14_Witness ==
    \E r \in Results :
        /\ Matching(url) # {}
        /\ r.source = GlassDoor
        /\ r.jobTitle = <<>>
        /\ r.company = <<>>

\* C15: two calls of parseUrl with the same URL and an unchanged document
\* return records equal in every field except applicationDateTime.
C15_ScrapeIdempotent ==
    \A r1, r2 \in Results :
        /\ r1.jobTitle = r2.jobTitle
        /\ r1.company = r2.company
        /\ r1.source = r2.source
        /\ r1.url = r2.url

\* Two calls were made, the clock ticked between them, and their
\* timestamps differ.
C15_Witness ==
    /\ Len(scraped) = 2
    /\ scraped[1].at # scraped[2].at
    /\ scraped[1].result.applicationDateTime # scraped[2].result.applicationDateTime
    /\ Matching(url) # {}

(***************************************************************************)
(* The page session: inject.js:98-194                                      *)
(***************************************************************************)
LinkedInSelectors == {urlMap[1].jobTitle, urlMap[1].company, urlMap[1].url}

\* LinkedIn is a single-page application: within one page session the
\* address, the document and the application container all change.  The
\* addresses the session visits, in order:
Visits == <<Href(LinkedInHost, <<>>), Href(LinkedInHost, IndeedHost)>>

PageUrls == { Visits[k] : k \in 1..Len(Visits) }

ContainerIds == {1, 2}

\* The job page with its LinkedIn elements rendered, and the application
\* container absent (0) or present with one identity or another.
PageDoms ==
    { WithApplyDiv(MkDom(LinkedInSelectors, "both"), c) : c \in {0} \cup ContainerIds }

Navigate ==
    /\ \E k \in 1..(Len(Visits) - 1) : url = Visits[k] /\ url' = Visits[k + 1]
    /\ UNCHANGED <<dom, now, scrapeVars, watcherVars, loadVars, bgVars>>

DomChange(d) ==
    /\ d # dom
    /\ dom' = d
    /\ UNCHANGED <<url, now, scrapeVars, watcherVars, loadVars, bgVars>>

\* saveJob(formData), inject.js:186-194: the message handed to
\* chrome.runtime.sendMessage.
saveJob(formData) == [action |-> "saveJob", formData |-> formData]

\* LoadDataBranch without the test of inject.js:106: scrapes on every request.
LoadDataBranchNoCache ==
    /\ Len(pendingSets) + Len(responses) < MaxLoads
    /\ pageMap' = <<parseUrl(url, dom, now)>>
    /\ loadDataParses' = loadDataParses + 1
    /\ pendingSets' = Append(pendingSets, pageMap'[1])
    /\ UNCHANGED <<storage, responses, url, dom, now, scrapeVars, watcherVars, bgVars>>

\* inject.js:105-117.  chrome.storage.local.set is asynchronous: the call is
\* queued here and its callback runs in StorageSetDone.
LoadDataBranch ==
    /\ Len(pendingSets) + Len(responses) < MaxLoads
    /\ pageMap' = IF pageMap = <<>> THEN <<parseUrl(url, dom, now)>> ELSE pageMap
    /\ loadDataParses' = IF pageMap = <<>> THEN loadDataParses + 1 ELSE loadDataParses
    /\ pendingSets' = Append(pendingSets, pageMap'[1])
    /\ UNCHANGED <<storage, responses, url, dom, now, scrapeVars, watcherVars, bgVars>>

\* AutoSaveBranch without the !savedApplication test of inject.js:122.
AutoSaveBranchNoLatch(request) ==
    /\ autoSave' = request.autoSave
    /\ IF request.autoSave
       THEN timers < MaxTimers /\ timers' = timers + 1
       ELSE timers' = timers
    /\ UNCHANGED <<savedApplication, observer, sent, lastAttempt, url, dom, now, scrapeVars,
                   loadVars, bgVars>>

\* AutoSaveBranch without the setTimeout of inject.js:123: the toggle is
\* stored and arming is left to a later event.
AutoSaveBranchNoTimer(request) ==
    /\ autoSave' = request.autoSave
    /\ timers' = timers
    /\ UNCHANGED <<savedApplication, observer, sent, lastAttempt, url, dom, now, scrapeVars,
                   loadVars, bgVars>>

\* inject.js:120-125
AutoSaveBranch(request) ==
    /\ autoSave' = request.autoSave
    /\ IF ~savedApplication /\ request.autoSave
       THEN timers < MaxTimers /\ timers' = timers + 1
       ELSE timers' = timers
    /\ UNCHANGED <<savedApplication, observer, sent, lastAttempt, url, dom, now, scrapeVars,
                   loadVars, bgVars>>

Requests ==
    {[action |-> "loadData"]} \cup
    {[action |-> "autoSave", autoSave |-> b] : b \in BOOLEAN}

\* chrome.runtime.onMessage listener, inject.js:104-126
OnMessage(request) ==
    IF request.action = "loadData" THEN LoadDataBranch
    ELSE IF request.action = "autoSave" THEN AutoSaveBranch(request)
    ELSE UNCHANGED vars

\* The callback of chrome.storage.local.set, inject.js:112-114: the items
\* have been written, then sendResponse(pageMap) runs.
StorageSetDone ==
    /\ pendingSets # <<>>
    /\ storage' = [storage EXCEPT !.job = <<Head(pendingSets)>>]
    /\ pendingSets' = Tail(pendingSets)
    /\ responses' = Append(responses, [record |-> pageMap[1], stored |-> storage'.job])
    /\ UNCHANGED <<pageMap, loadDataParses, url, dom, now, scrapeVars, watcherVars, bgVars>>

\* sendFormDataOnEasyApply without the !observer test of inject.js:147.
sendFormDataOnEasyApplyNoGuard ==
    /\ timers > 0
    /\ timers' = timers - 1
    /\ LET jobElement == querySelector(dom, applyDivClass)
       IN  observer' = IF jobElement # NoElement
                       THEN <<[target |-> jobElement[1].id]>>
                       ELSE observer
    /\ UNCHANGED <<autoSave, savedApplication, sent, url, dom, now, scrapeVars,
                   loadVars, bgVars>>

\* sendFormDataOnEasyApply, inject.js:136-184, run by a timer set at inject.js:123
sendFormDataOnEasyApply ==
    /\ timers > 0
    /\ timers' = timers - 1
    /\ LET jobElement == querySelector(dom, applyDivClass)
       IN  observer' = IF observer = <<>> /\ jobElement # NoElement
                       THEN <<[target |-> jobElement[1].id]>>
                       ELSE observer
    /\ UNCHANGED <<autoSave, savedApplication, sent, url, dom, now, scrapeVars,
                   loadVars, bgVars>>

\* Nodes a mutation record can add.
SuccessNode == [nodeType |-> 1, classList |-> {"artdeco-inline-feedback", postApplyClass}]
OtherElement == [nodeType |-> 1, classList |-> {"artdeco-inline-feedback"}]
TextNode == [nodeType |-> 3, classList |-> {}]

\* With the configuration of inject.js:180 every record is a childList record.
MutationRecord(addedNodes) == [type |-> "childList", addedNodes |-> addedNodes]

Batches ==
    { <<MutationRecord(<<>>)>>,
      <<MutationRecord(<<OtherElement>>), MutationRecord(<<TextNode>>)>>,
      <<MutationRecord(<<SuccessNode>>)>>,
      <<MutationRecord(<<TextNode, SuccessNode, OtherElement>>)>>,
      <<MutationRecord(<<SuccessNode, SuccessNode>>)>>,
      <<MutationRecord(<<SuccessNode>>), MutationRecord(<<>>), MutationRecord(<<SuccessNode>>)>> }

\* The inner loop, inject.js:157-176: the messages sent for one record's
\* nodes.  record is what parseUrl(window.location.href) returns at
\* inject.js:165; the address, the document and the clock do not change
\* within one callback, so every call in it returns the same record.
RECURSIVE NodeLoop(_, _)
NodeLoop(nodes, record) ==
    IF nodes = <<>> THEN <<>>
    ELSE LET node == Head(nodes)
             here == IF node.nodeType = 1 /\ postApplyClass \in node.classList
                     THEN <<saveJob(record)>>
                     ELSE <<>>
         IN  here \o NodeLoop(Tail(nodes), record)

\* The outer loop, inject.js:155-178: the messages sent for one batch.
RECURSIVE MutationLoop(_, _)
MutationLoop(mutations, record) ==
    IF mutations = <<>> THEN <<>>
    ELSE LET mutation == Head(mutations)
             here == IF mutation.type = "childList" /\ Len(mutation.addedNodes) > 0
                     THEN NodeLoop(mutation.addedNodes, record)
                     ELSE <<>>
         IN  here \o MutationLoop(Tail(mutations), record)

\* MutationCallback submitting the record loadData cached, when there is
\* one, where inject.js:165 scrapes again.
MutationCallbackCached(mutations) ==
    /\ observer # <<>>
    /\ \E record \in {IF pageMap # <<>> THEN pageMap[1] ELSE parseUrl(url, dom, now)} :
       \E messages \in {MutationLoop(mutations, record)} :
           /\ Len(sent) + Len(messages) <= MaxSent
           /\ sent' = sent \o messages
           /\ savedApplication' = (savedApplication \/ messages # <<>>)
    /\ UNCHANGED <<autoSave, observer, timers, lastAttempt, url, dom, now, scrapeVars,
                   loadVars, bgVars>>

\* MutationCallback with inject.js:165 assigning the module-level pageMap
\* (the declaration's const dropped).
MutationCallbackSharedPageMap(mutations) ==
    /\ observer # <<>>
    /\ \E record \in {parseUrl(url, dom, now)} :
       \E messages \in {MutationLoop(mutations, record)} :
           /\ Len(sent) + Len(messages) <= MaxSent
           /\ sent' = sent \o messages
           /\ savedApplication' = (savedApplication \/ messages # <<>>)
           /\ pageMap' = IF messages # <<>> THEN <<record>> ELSE pageMap
    /\ UNCHANGED <<autoSave, observer, timers, lastAttempt, url, dom, now, scrapeVars,
                   loadDataParses, pendingSets, storage, responses, bgVars>>

\* The MutationObserver callback, inject.js:154-179, run on one batch.  The
\* observer is never disconnected, so a batch can arrive whenever it exists.
MutationCallback(mutations) ==
    /\ observer # <<>>
    /\ \E record \in {parseUrl(url, dom, now)} :
       \E messages \in {MutationLoop(mutations, record)} :
           /\ Len(sent) + Len(messages) <= MaxSent
           /\ sent' = sent \o messages
           /\ savedApplication' = (savedApplication \/ messages # <<>>)
    /\ UNCHANGED <<autoSave, observer, timers, lastAttempt, url, dom, now, scrapeVars,
                   loadVars, bgVars>>

Init ==
    /\ url = Visits[1]
    /\ dom \in PageDoms
    /\ now = 0
    /\ scraped = <<>>
    /\ WatcherInit /\ LoadInit /\ BgInit

Next ==
    \/ Navigate
    \/ \E d \in PageDoms : DomChange(d)
    \/ Tick
    \/ \E request \in Requests : OnMessage(request)
    \/ StorageSetDone
    \/ sendFormDataOnEasyApply /\ UNCHANGED lastAttempt
    \/ \E mutations \in Batches : MutationCallback(mutations)

Spec == Init /\ [][Next]_vars

(***************************************************************************)
(* The arming timer under fairness.  One page session without navigation:  *)
(* the popup toggles autosave, the document changes, timers fire and the   *)
(* observer reports batches.  A callback passed to setTimeout (inject.js:  *)
(* 123) is run by the event loop once its delay has passed, and nothing    *)
(* in the script cancels it: a pending timer is not left waiting forever.  *)
(***************************************************************************)

\* What one run of sendFormDataOnEasyApply saw: whether `observer` was unset
\* (inject.js:147) and the element found at inject.js:144.  seq alternates
\* between runs, so that two successive runs never leave the same record.
AttemptSeq == IF lastAttempt = <<>> THEN 0 ELSE lastAttempt[1].seq

TimerFires ==
    /\ sendFormDataOnEasyApply
    /\ LET jobElement == querySelector(dom, applyDivClass)
       IN  lastAttempt' = <<[seq |-> 1 - AttemptSeq,
                             idle |-> observer = <<>>,
                             jobElement |-> IF jobElement = NoElement THEN <<>>
                                            ELSE <<jobElement[1].id>>]>>

AutoSaveRequests == { request \in Requests : request.action = "autoSave" }

FairNext ==
    \/ \E d \in PageDoms : DomChange(d)
    \/ \E request \in AutoSaveRequests : OnMessage(request)
    \/ TimerFires
    \/ \E mutations \in Batches : MutationCallback(mutations)

FairSpec == Init /\ [][FairNext]_vars /\ WF_vars(TimerFires)

(***************************************************************************)
(* Properties of the completion watcher (checked under Spec)               *)
(***************************************************************************)
\* Only the observer callback changes sent, and one step of it is one batch.

\* C1: one mutation batch, however many success nodes it adds, makes at
\* most one saveJob submission.
C1_OneSubmissionPerBatch ==
    [][\A mutations \in Batches :
          MutationCallback(mutations) => Len(sent') <= Len(sent) + 1]_vars

\* C2: once the watcher has fired (savedApplication is set and a record was
\* submitted), no later batch under the same observed container submits
\* again: the number of submissions stays what it was.
C2_NoSubmissionAfterFired ==
    [][(savedApplication /\ observer # <<>>) => sent' = sent]_vars

\* The application container the document holds differs from the one the
\* observer was attached to.
NewContainerPresent ==
    /\ observer # <<>>
    /\ querySelector(dom, applyDivClass) # NoElement
    /\ querySelector(dom, applyDivClass)[1].id # observer[1].target

\* C3: after the watcher has fired, running sendFormDataOnEasyApply again
\* with a new application container present moves it back to watching on
\* that new container.
C3_RearmOnNewContainer ==
    [][(sendFormDataOnEasyApply /\ savedApplication /\ NewContainerPresent) =>
          observer' = <<[target |-> querySelector(dom, applyDivClass)[1].id]>>]_vars

\* C4: the observer is created and attached (idle -> watching) only in a
\* state where the autoSave flag is true.
C4_ArmedOnlyWhileAutoSave ==
    [][(observer = <<>> /\ observer' # <<>>) => autoSave]_vars

(***************************************************************************)
(* Properties of the loadData branch (checked under Spec)                  *)
(***************************************************************************)
\* C9: over any sequence of loadData requests in one page session the
\* loadData branch runs parseUrl at most once, every response carries the
\* record of the first response, and each response is sent when that same
\* record is what storage holds.
C9_LoadDataCached ==
    /\ loadDataParses <= 1
    /\ \A k \in 1..Len(responses) :
          /\ responses[k].record = responses[1].record
          /\ responses[k].stored = <<responses[k].record>>

\* Two responses were sent, and the page has changed since the record was
\* computed: scraping now would give another record.
C9_Witness ==
    /\ Len(responses) >= 2
    /\ loadDataParses = 1
    /\ parseUrl(url, dom, now) # responses[2].record

\* C11: the watcher leaves idle only in an arming attempt that finds the
\* application container while no observer exists: an observer, once
\* created, is never replaced by another one, whatever messages and timers
\* follow, and an attempt that finds no container leaves the watcher as it
\* was.
C11_OneObserverPerSession ==
    /\ [](/\ lastAttempt # <<>>
          /\ lastAttempt[1].idle
          /\ lastAttempt[1].jobElement = <<>>
          => observer = <<>>)
    /\ [][/\ observer # <<>> => observer' = observer
          /\ observer' # observer =>
                /\ lastAttempt' # lastAttempt
                /\ querySelector(dom, applyDivClass) # NoElement
                /\ observer' = <<[target |-> querySelector(dom, applyDivClass)[1].id]>>]_vars

\* An attempt ran while an observer existed and another container was in
\* the document; the observer is still the one on the first container.
C11_Witness ==
    /\ lastAttempt # <<>>
    /\ ~lastAttempt[1].idle
    /\ lastAttempt[1].jobElement # <<>>
    /\ observer # <<>>
    /\ observer[1].target # lastAttempt[1].jobElement[1]

\* C12: an autoSave message with value true that arrives while the watcher
\* is idle sets a timer; under fairness of the timer an arming attempt then
\* runs, with no navigation; and an attempt that finds the application
\* container leaves the watcher watching.
C12_ToggleOnArms ==
    /\ [][\A request \in AutoSaveRequests :
            (request.autoSave /\ observer = <<>> /\ OnMessage(request))
                => timers' = timers + 1]_vars
    /\ \A seq \in {0, 1} : (timers > 0 /\ AttemptSeq = seq) ~> (AttemptSeq # seq)
    /\ [](lastAttempt # <<>> /\ lastAttempt[1].jobElement # <<>> => observer # <<>>)

\* Autosave was toggled on while idle, the attempt found the container and
\* the observer is attached to it.
C12_Witness ==
    /\ autoSave
    /\ lastAttempt # <<>>
    /\ lastAttempt[1].idle
    /\ lastAttempt[1].jobElement # <<>>
    /\ observer = <<[target |-> lastAttempt[1].jobElement[1]]>>

\* C13: the formData of every saveJob message the watcher sends is parseUrl
\* applied to the address, the document and the clock of the moment of
\* firing, whatever record loadData cached earlier.
C13_SubmitsFreshScrape ==
    [][\A k \in (Len(sent) + 1)..Len(sent') :
          sent'[k] = saveJob(parseUrl(url, dom, now))]_vars

\* loadData cached a record on the first address, the session moved on, and
\* the watcher fired there: the submitted record is not the cached one.
C13_Witness ==
    /\ pageMap # <<>>
    /\ sent # <<>>
    /\ pageMap[1].source = LinkedIn
    /\ sent[1].formData.source = Indeed
    /\ sent[1].formData # pageMap[1]

(***************************************************************************)
(* Properties of the page session's flags (checked under Spec)             *)
(***************************************************************************)
\* C16: the mutation callback sends a saveJob message only in a state where
\* the autoSave flag is true.
C16_SubmitsOnlyWhileAutoSave ==
    [][sent' # sent => autoSave]_vars

\* C17: savedApplication starts false, becomes true only in a step of the
\* observer callback that submits, never returns to false, and once it is
\* true no message schedules a further arming attempt.
C17_SavedApplicationLatch ==
    /\ savedApplication = FALSE
    /\ [][/\ savedApplication => savedApplication'
          /\ (~savedApplication /\ savedApplication') => (observer # <<>> /\ sent' # sent)
          /\ savedApplication => timers' <= timers]_vars

\* The watcher has fired, no arming attempt is pending, and autosave is on.
C17_Witness ==
    /\ savedApplication
    /\ sent # <<>>
    /\ autoSave
    /\ timers = 0

\* C18: a step in which the watcher fires leaves pageMap and everything
\* else the loadData branch keeps unchanged, so the responses sent after a
\* firing carry the record cached before it.
C18_FiringKeepsCache ==
    [][(sent' # sent \/ savedApplication' # savedApplication) =>
          UNCHANGED <<pageMap, loadDataParses, pendingSets, storage, responses>>]_vars

\* The watcher fired on a page other than the cached one, and the loadData
\* responses, two of them, carry the cached record.
C18_Witness ==
    /\ savedApplication
    /\ Len(responses) = 2
    /\ responses[2].record = pageMap[1]
    /\ responses[1].record = pageMap[1]
    /\ \E k \in 1..Len(sent) : sent[k].formData # pageMap[1]

(***************************************************************************)
(* The background context: background.js:34-54                             *)
(***************************************************************************)
\* A settled or pending promise.
Fulfilled(value) == [state |-> "fulfilled", value |-> value]
Rejected(reason) == [state |-> "rejected", value |-> reason]

\* The value of `this` in the body of a function called as f(): undefined,
\* background.js being an ES module (it has an import declaration) and so
\* strict code.  A value is the empty sequence for undefined, or a sequence
\* holding the object's properties.
ThisOfPlainCall == <<>>

\* initializeOauth(), background.js:50-54, called with `this` = thisValue:
\* the promise it returns.  Reading a property of undefined throws a
\* TypeError, which rejects the promise of an async function.
initializeOauth(thisValue) ==
    IF thisValue = <<>> THEN Rejected("TypeError")        \* this.form
    ELSE IF thisValue[1].oauth = <<>> THEN Rejected("TypeError")  \* this.oauth.initilaize
    ELSE Fulfilled("oauth")

SheetIds == {"sheet-1", "sheet-2"}

BgFormData == { parseUrl(href, d, 0) : href \in PageUrls, d \in PageDoms }

BgMessages ==
    { [action |-> "loadSheet", sheetId |-> id] : id \in SheetIds } \cup
    { saveJob(formData) : formData \in BgFormData }

\* chrome.runtime.onMessage listener, background.js:34-48, up to the point
\* where it returns to the host: at its end, or at the await of line 44.
\* What the listener returns is a promise, never the literal true, and it
\* has not called sendResponse: whether the host then keeps the response
\* channel open depends on the host's version, so both are modelled.
BgOnMessage(message, keepsChannel) ==
    /\ Len(bgTasks) < MaxBgMessages
    /\ storage' = IF message.action = "loadSheet"
                  THEN [storage EXCEPT !.sheetId = <<message.sheetId>>]
                  ELSE storage
    /\ bgTasks' = Append(bgTasks,
          [message |-> message,
           state |-> IF message.action = "saveJob" THEN "awaiting" ELSE "fulfilled",
           awaited |-> IF message.action = "saveJob"
                       THEN <<initializeOauth(ThisOfPlainCall)>>
                       ELSE <<>>,
           channelOpen |-> keepsChannel,
           responded |-> FALSE])
    /\ UNCHANGED <<appendCalls, injections, pageMap, loadDataParses, pendingSets, responses,
                   url, dom, now, scrapeVars, watcherVars>>

\* The listener resumed after the await of background.js:44, to its end.
BgResume(k) ==
    /\ k \in 1..Len(bgTasks)
    /\ bgTasks[k].state = "awaiting"
    /\ LET task == bgTasks[k]
           promise == task.awaited[1]
       IN  IF promise.state = "rejected"
           THEN /\ bgTasks' = [bgTasks EXCEPT ![k].state = "rejected"]
                /\ UNCHANGED appendCalls
           ELSE /\ appendCalls' = Append(appendCalls,
                       [task |-> k, formData |-> task.message.formData])
                /\ bgTasks' = [bgTasks EXCEPT ![k].state = "fulfilled",
                                              ![k].responded = task.channelOpen]
    /\ UNCHANGED <<injections, url, dom, now, scrapeVars, watcherVars, loadVars>>

\* injectScript(tabId), background.js:8-14: the executeScript call it makes.
injectScript(tabId) == [tabId |-> tabId, files |-> <<"dist/inject.bundle.js">>]

TabIds == {1, 2}

\* changeInfo of a tab-update notification: url is present only when the
\* address changed (the empty sequence stands for an absent url).
ChangeInfos == {[url |-> <<>>]} \cup {[url |-> <<href>>] : href \in PageUrls}

\* chrome.tabs.onUpdated listener, background.js:17-28, run on one
\* notification.  lastError is whether chrome.runtime.lastError is set
\* when the listener runs: host state the listener reads.
OnUpdated(tabId, changeInfo, lastError) ==
    /\ LET first == IF changeInfo.url # <<>> THEN <<injectScript(tabId)>> ELSE <<>>
           second == IF lastError THEN <<injectScript(tabId)>> ELSE <<>>
       IN  /\ Len(injections) + Len(first) + Len(second) <= MaxInjections
           /\ injections' = injections \o first \o second
    /\ UNCHANGED <<bgTasks, appendCalls, url, dom, now, scrapeVars, watcherVars, loadVars>>

BgSpecInit ==
    /\ url = Visits[1]
    /\ dom \in PageDoms
    /\ now = 0
    /\ scraped = <<>>
    /\ WatcherInit /\ LoadInit /\ BgInit

BgNext ==
    \/ \E message \in BgMessages, keepsChannel \in BOOLEAN : BgOnMessage(message, keepsChannel)
    \/ \E k \in 1..MaxBgMessages : BgResume(k)
    \/ \E tabId \in TabIds, changeInfo \in ChangeInfos, lastError \in BOOLEAN :
          OnUpdated(tabId, changeInfo, lastError)

BgSpec == BgSpecInit /\ [][BgNext]_vars

\* C10: every saveJob message the background listener has finished handling
\* caused exactly one call of the spreadsheet-append collaborator, with that
\* message's formData, and its result was passed to sendResponse while the
\* response channel was open.
C10_SaveJobAppendsOnce ==
    \A k \in 1..Len(bgTasks) :
        (bgTasks[k].message.action = "saveJob" /\ bgTasks[k].state # "awaiting") =>
            /\ Cardinality({ c \in 1..Len(appendCalls) : appendCalls[c].task = k }) = 1
            /\ \A c \in 1..Len(appendCalls) :
                  appendCalls[c].task = k =>
                      appendCalls[c].formData = bgTasks[k].message.formData
            /\ bgTasks[k].responded

\* C19: one tab-update notification causes at most one injection of the
\* page script, also when it carries a changed URL while a runtime error
\* is pending.  (Only the onUpdated listener injects, and one step of it is
\* one notification.)
C19_OneInjectionPerUpdate ==
    [][Len(injections') <= Len(injections) + 1]_vars
====
